---------------------------- MODULE Spec2Model ----------------------------
(***************************************************************************)
(* pdf2bib (src/pdf2bib.py): BibEntry (parse / format of a bibtex record), *)
(* PDFParser (converter discovery, DOI search), BibLookup and main.        *)
(*                                                                         *)
(* A Python str / bytes object is a sequence of one-character strings.     *)
(***************************************************************************)
EXTENDS Naturals, Sequences, FiniteSets

VARIABLES
    \* ---- BibEntry driver (SpecBib)
    bText,      \* the bibtex code handed to BibEntry(...)
    bSrc,       \* the components bText was written from
    bEntry,     \* the BibEntry object (or the failed construction)
    bAdded,     \* whether add_arg has been called on bEntry
    bExcl,      \* the exclude argument of the last format call
    bOut,       \* the string returned by the last format call
    bRe,        \* BibEntry(bOut)
    bPc,
    \* ---- get_doi driver (SpecDoi)
    dOut,       \* the bytes read from the converter's stdout
    dMatch,     \* the match object of doi_regex.search(out)
    dDoi,       \* what get_doi returned
    dPc,
    \* ---- process environment and the PDFParser object (SpecWhich, Spec)
    PATH,       \* os.environ["PATH"].split(os.pathsep)
    fs,         \* the file system: [dir, program] -> kind of file
    converter,  \* PDFParser.converter
    wPc,
    \* ---- main (Spec)
    pc,
    args,       \* the parsed command line: location, exclude
    f,          \* the gathered files
    idx,        \* position of the for loop over f (1-based)
    doi,        \* main's local doi
    fetched,    \* the text returned by get_bibtex
    b,          \* main's local b
    sink,       \* what has been written to args.output, one element per write
    requests,   \* the urlopen calls made, in order
    console,    \* the lines printed
    spawned,    \* the subprocess commands started, in order
    error       \* the exception that left main, "" while there is none

bibVars   == <<bText, bSrc, bEntry, bAdded, bExcl, bOut, bRe, bPc>>
doiVars   == <<dOut, dMatch, dDoi, dPc>>
envVars   == <<PATH, fs>>
mainVars  == <<pc, args, f, idx, doi, fetched, b, sink, requests, console, spawned,
              error>>
vars      == <<bibVars, doiVars, envVars, converter, wPc, mainVars>>

---------------------------------------------------------------------------
(* Characters *)

Lower     == {"a", "b", "c", "d", "e", "f", "g", "h", "i", "j", "k", "l", "m",
              "n", "o", "p", "q", "r", "s", "t", "u", "v", "w", "x", "y", "z"}
Upper     == {"A", "B", "C", "D", "E", "F", "G", "H", "I", "J", "K", "L", "M",
              "N", "O", "P", "Q", "R", "S", "T", "U", "V", "W", "X", "Y", "Z"}
Digit     == {"0", "1", "2", "3", "4", "5", "6", "7", "8", "9"}
\* \w
Word      == Lower \cup Upper \cup Digit \cup {"_"}
NL        == "\n"

None      == [ok |-> FALSE]

RECURSIVE RunEnd(_, _, _)
\* the last index of the longest run of characters of class C that starts at i
\* (i - 1 when the run is empty): what a greedy C+ consumes when the character
\* the pattern wants next is not in C
RunEnd(s, i, C) ==
    IF i <= Len(s) /\ s[i] \in C THEN RunEnd(s, i + 1, C) ELSE i - 1

Min(S) == CHOOSE x \in S : \A y \in S : x <= y
Max(S) == CHOOSE x \in S : \A y \in S : x >= y

At(s, i) == IF i >= 1 /\ i <= Len(s) THEN s[i] ELSE "<eos>"

RECURSIVE Concat(_)
Concat(ss) == IF ss = <<>> THEN <<>> ELSE Head(ss) \o Concat(Tail(ss))

---------------------------------------------------------------------------
(* BibEntry *)

TypeClass == Word \cup {"-"}
IdClass   == Word \cup {"-", " "}
KeyClass  == Word \cup {"-"}

\* parts = "@(?P<type>[\w\-]+)\{(?P<id>[\w\- ]+), (?P<args>.+)\}" tried at i
parts_at(s, i) ==
    LET te == RunEnd(s, i + 1, TypeClass)
        ie == RunEnd(s, te + 2, IdClass)
        a  == ie + 3
        \* '.' does not match a newline
        le == RunEnd(s, a, {At(s, k) : k \in 1..Len(s)} \ {NL})
        closers == {j \in (a + 1)..le : s[j] = "}"}
    IN  IF /\ At(s, i) = "@"
           /\ te >= i + 1 /\ At(s, te + 1) = "{"
           /\ ie >= te + 2 /\ At(s, ie + 1) = "," /\ At(s, ie + 2) = " "
           /\ closers # {}
        THEN [ok |-> TRUE,
              type |-> SubSeq(s, i + 1, te),
              id |-> SubSeq(s, te + 2, ie),
              args |-> SubSeq(s, a, Max(closers) - 1)]
        ELSE None

\* parts.search(entry): the leftmost position where the pattern matches
parts_search(s) ==
    LET hits == {i \in 1..Len(s) : parts_at(s, i).ok}
    IN  IF hits = {} THEN None ELSE parts_at(s, Min(hits))

\* keys with a greedy value, (?P<value>.+), tried at q
keys_at_greedy(s, q) ==
    LET ke == RunEnd(s, q, KeyClass)
        vs == ke + 3
        le == RunEnd(s, vs, {At(s, k) : k \in 1..Len(s)} \ {NL})
        AtEnd(e) == e = Len(s) \/ (e = Len(s) - 1 /\ s[Len(s)] = NL)
        Sep(e)   == At(s, e + 1) = "," /\ At(s, e + 2) = " "
        ends == {e \in (vs + 1)..(le + 1) :
                    At(s, e) = "}" /\ (Sep(e) \/ AtEnd(e))}
    IN  IF /\ ke >= q /\ At(s, ke + 1) = "=" /\ At(s, ke + 2) = "{"
           /\ ends # {}
        THEN LET e == Max(ends)
             IN  [ok |-> TRUE,
                  key |-> SubSeq(s, q, ke),
                  value |-> SubSeq(s, vs, e - 1),
                  end |-> IF Sep(e) THEN e + 2 ELSE e]
        ELSE None

\* keys = "(?P<key>[\w\-]+)=\{(?P<value>.+?)\}(, |$)" tried at q
keys_at(s, q) ==
    LET ke == RunEnd(s, q, KeyClass)
        vs == ke + 3
        le == RunEnd(s, vs, {At(s, k) : k \in 1..Len(s)} \ {NL})
        AtEnd(e) == e = Len(s) \/ (e = Len(s) - 1 /\ s[Len(s)] = NL)
        Sep(e)   == At(s, e + 1) = "," /\ At(s, e + 2) = " "
        ends == {e \in (vs + 1)..(le + 1) :
                    At(s, e) = "}" /\ (Sep(e) \/ AtEnd(e))}
    IN  IF /\ ke >= q /\ At(s, ke + 1) = "=" /\ At(s, ke + 2) = "{"
           /\ ends # {}
        THEN LET e == Min(ends)
             IN  [ok |-> TRUE,
                  key |-> SubSeq(s, q, ke),
                  value |-> SubSeq(s, vs, e - 1),
                  end |-> IF Sep(e) THEN e + 2 ELSE e]
        ELSE None

RECURSIVE keys_finditer(_, _)
\* keys.finditer(args) from position p on: the non-overlapping matches, left
\* to right
keys_finditer(s, p) ==
    LET hits == {q \in p..Len(s) : keys_at(s, q).ok}
    IN  IF hits = {} THEN <<>>
        ELSE LET m == keys_at(s, Min(hits))
             IN  <<m>> \o keys_finditer(s, m.end + 1)

\* a dict keeps its keys in insertion order: a sequence of [key, value] with
\* distinct keys
DictKeys(d) == {d[i].key : i \in 1..Len(d)}
DictGet(d, k) == d[CHOOSE i \in 1..Len(d) : d[i].key = k].value
DictSet(d, k, v) ==
    IF k \in DictKeys(d)
    THEN [i \in 1..Len(d) |-> IF d[i].key = k THEN [key |-> k, value |-> v] ELSE d[i]]
    ELSE Append(d, [key |-> k, value |-> v])

RECURSIVE FillArgs(_, _)
FillArgs(d, ms) ==
    IF ms = <<>> THEN d
    ELSE FillArgs(DictSet(d, Head(ms).key, Head(ms).value), Tail(ms))

\* __init__ going on with an empty record when parts.search found nothing
BibEntry_lenient(entry) ==
    LET match == parts_search(entry)
    IN  IF ~match.ok THEN [ok |-> TRUE, id |-> <<>>, type |-> <<>>, args |-> <<>>]
        ELSE [ok |-> TRUE, id |-> match.id, type |-> match.type,
              args |-> FillArgs(<<>>, keys_finditer(match.args, 1))]

\* BibEntry.__init__(entry); None stands for the AttributeError raised by
\* match.group when parts.search returned None
BibEntry(entry) ==
    LET match == parts_search(entry)
    IN  IF ~match.ok THEN None
        ELSE [ok |-> TRUE, id |-> match.id, type |-> match.type,
              args |-> FillArgs(<<>>, keys_finditer(match.args, 1))]

FieldLine(key, value) ==
    <<NL, " ", " ", " ", " ">> \o key \o <<"=", "{">> \o value \o <<"}">>

RECURSIVE FormatItems(_, _)
FormatItems(items, exclude) ==
    IF items = <<>> THEN <<>>
    ELSE (IF Head(items).key \notin exclude
          THEN FieldLine(Head(items).key, Head(items).value) ELSE <<>>)
         \o FormatItems(Tail(items), exclude)

\* format with the test of line 78 inverted
format_inverted(self, exclude) ==
    <<"@">> \o self.type \o <<"{">> \o self.id \o <<",">>
        \o FormatItems(self.args, DictKeys(self.args) \ exclude) \o <<NL, "}">>

\* BibEntry.format(exclude)
format(self, exclude) ==
    <<"@">> \o self.type \o <<"{">> \o self.id \o <<",">>
        \o FormatItems(self.args, exclude) \o <<NL, "}">>

\* BibEntry.add_arg(key, value)
add_arg(self, key, value) ==
    [self EXCEPT !.args = DictSet(self.args, key, value)]

---------------------------------------------------------------------------
(* Inputs of the BibEntry driver *)

MaxFields == 2

s_article   == <<"a", "r", "t", "i", "c", "l", "e">>
s_smith2020 == <<"s", "m", "i", "t", "h", "2", "0", "2", "0">>
s_title     == <<"t", "i", "t", "l", "e">>
s_Title     == <<"T", "i", "t", "l", "e">>
s_year      == <<"y", "e", "a", "r">>
s_eprint    == <<"e", "-", "p", "r", "i", "n", "t">>
s_file      == <<"f", "i", "l", "e">>
s_AStudy    == <<"A", " ", "S", "t", "u", "d", "y">>
s_2020      == <<"2", "0", "2", "0">>

Heads  == {[type |-> s_article, key |-> s_smith2020],
           [type |-> <<"i", "n", "-", "b", "o", "o", "k">>,
            key |-> <<"D", "o", "e", "_", "1", "9", " ", "b">>]}
Names  == {s_title, s_Title, s_year, s_eprint}
Values == {s_AStudy, s_2020,
           <<"{", "A", "}", " ", "{", "B", "}">>,      \* nested balanced braces
           <<"v", "}">>,                                \* ends with a brace
           <<"a", "}", ",", " ", "b">>}                 \* contains "}, "
Field  == [key : Names, value : Values]

\* the field lists with distinct names, at most MaxFields long
FieldLists ==
    UNION {{fl \in [1..n -> Field] :
              \A i, j \in 1..n : i # j => fl[i].key # fl[j].key}
           : n \in 1..MaxFields}

RECURSIVE JoinFields(_)
JoinFields(fl) ==
    IF fl = <<>> THEN <<>>
    ELSE Head(fl).key \o <<"=", "{">> \o Head(fl).value \o <<"}">>
         \o (IF Len(fl) > 1 THEN <<",", " ">> ELSE <<>>) \o JoinFields(Tail(fl))

\* the single-line record "@T{K, f1={v1}, ..., fn={vn}}"
RecordText(src) ==
    <<"@">> \o src.head.type \o <<"{">> \o src.head.key \o <<",", " ">>
        \o JoinFields(src.fields) \o <<"}">>

ExcludeSets == SUBSET {s_title, s_Title, s_year}
AddedArgs   == {[key |-> s_file, value |-> <<"p", ".", "p", "d", "f">>],
                [key |-> s_title, value |-> <<"x">>]}

BibInit ==
    /\ bSrc \in [head : Heads, fields : FieldLists]
    /\ bText = RecordText(bSrc)
    /\ bEntry = None
    /\ bAdded = FALSE
    /\ bExcl = {}
    /\ bOut = <<>>
    /\ bRe = None
    /\ bPc = "start"

BibIdle ==
    /\ bSrc = [head |-> [type |-> <<>>, key |-> <<>>], fields |-> <<>>]
    /\ bText = <<>>
    /\ bEntry = None
    /\ bAdded = FALSE
    /\ bExcl = {}
    /\ bOut = <<>>
    /\ bRe = None
    /\ bPc = "idle"

\* b = BibEntry(bText)
BibParse ==
    /\ bPc = "start"
    /\ bEntry' = BibEntry(bText)
    /\ bPc' = IF bEntry'.ok THEN "parsed" ELSE "raised"
    /\ UNCHANGED <<bText, bSrc, bAdded, bExcl, bOut, bRe>>
    /\ UNCHANGED <<doiVars, envVars, converter, wPc, mainVars>>

\* b.add_arg(key, value)
BibAddArg ==
    /\ bPc = "parsed"
    /\ ~bAdded
    /\ \E a \in AddedArgs : bEntry' = add_arg(bEntry, a.key, a.value)
    /\ bAdded' = TRUE
    /\ UNCHANGED <<bText, bSrc, bExcl, bOut, bRe, bPc>>
    /\ UNCHANGED <<doiVars, envVars, converter, wPc, mainVars>>

\* out = b.format(exclude)
BibFormat ==
    /\ bPc = "parsed"
    /\ \E e \in ExcludeSets :
          /\ bExcl' = e
          /\ bOut' = format(bEntry, e)
    /\ bPc' = "formatted"
    /\ UNCHANGED <<bText, bSrc, bEntry, bAdded, bRe>>
    /\ UNCHANGED <<doiVars, envVars, converter, wPc, mainVars>>

\* BibEntry(out)
BibReparse ==
    /\ bPc = "formatted"
    /\ bRe' = BibEntry(bOut)
    /\ bPc' = "reparsed"
    /\ UNCHANGED <<bText, bSrc, bEntry, bAdded, bExcl, bOut>>
    /\ UNCHANGED <<doiVars, envVars, converter, wPc, mainVars>>

---------------------------------------------------------------------------
(* PDFParser: the DOI search *)

\* a byte that is no ASCII character (0xE9)
xE9         == "\\xe9"
SuffixClass == Word \cup {"-", "."}

\* doi_regex = b"10.\d{4}/[\w\-\.]+" tried at i; the '.' after 10 is not
\* escaped: it matches any byte but a newline
doi_at(s, i) ==
    LET e == RunEnd(s, i + 8, SuffixClass)
    IN  IF /\ At(s, i) = "1" /\ At(s, i + 1) = "0"
           /\ i + 2 <= Len(s) /\ s[i + 2] # NL
           /\ \A k \in 3..6 : At(s, i + k) \in Digit
           /\ At(s, i + 7) = "/"
           /\ e >= i + 8
        THEN [ok |-> TRUE, start |-> i, value |-> SubSeq(s, i, e)]
        ELSE None

\* a search that keeps the last match
doi_search_last(s) ==
    LET hits == {i \in 1..Len(s) : doi_at(s, i).ok}
    IN  IF hits = {} THEN None ELSE doi_at(s, Max(hits))

\* doi_regex.search(out)
doi_search(s) ==
    LET hits == {i \in 1..Len(s) : doi_at(s, i).ok}
    IN  IF hits = {} THEN None ELSE doi_at(s, Min(hits))

\* bytes.decode("utf-8") of a match of doi_regex: every byte of a match is
\* ASCII but the one the '.' matched, and a byte >= 0x80 followed by a digit
\* is no UTF-8: UnicodeDecodeError
decode(bytes) ==
    IF \E k \in 1..Len(bytes) : bytes[k] = xE9
    THEN [ok |-> FALSE, raised |-> "UnicodeDecodeError"]
    ELSE [ok |-> TRUE, value |-> bytes]

\* PDFParser.get_doi, from the bytes of the converter's stdout on:
\* [ok |-> FALSE] is None, a record with raised the exception
get_doi(out) ==
    LET match == doi_search(out)
    IN  IF match.ok THEN decode(match.value) ELSE None

Raised(r) == ~r.ok /\ "raised" \in DOMAIN r

MaxSegs == 3

b_xyz123 == <<"1", "0", ".", "1", "0", "0", "0", "/", "x", "y", "z", "1", "2", "3">>
b_a_b_c  == <<"1", "0", ".", "2", "3", "4", "5", "/", "a", "-", "b", ".", "c">>
b_10x    == <<"1", "0", "x", "1", "0", "0", "0", "/", "a", "b", "c">>
b_10nl   == <<"1", "0", NL, "1", "0", "0", "0", "/", "a", "b", "c">>
b_10xE9  == <<"1", "0", xE9, "1", "0", "0", "0", "/", "a">>
b_3digit == <<"1", "0", ".", "1", "0", "0", "/", "a", "b">>
b_label  == <<"d", "o", "i", ":", " ">>

Segments == {b_xyz123, b_a_b_c, b_10x, b_10nl, b_10xE9, b_3digit, b_label, <<NL>>}

Contents ==
    UNION {{Concat(segs) : segs \in [1..n -> Segments]} : n \in 0..MaxSegs}

DoiInit ==
    /\ dOut \in Contents
    /\ dMatch = None
    /\ dDoi = None
    /\ dPc = "start"

DoiIdle ==
    /\ dOut = <<>>
    /\ dMatch = None
    /\ dDoi = None
    /\ dPc = "idle"

\* doi = parser.get_doi(file), the converter having written dOut
DoiGet ==
    /\ dPc = "start"
    /\ dMatch' = doi_search(dOut)
    /\ dDoi' = get_doi(dOut)
    /\ dPc' = IF Raised(dDoi') THEN "raised" ELSE "returned"
    /\ UNCHANGED dOut
    /\ UNCHANGED <<bibVars, envVars, converter, wPc, mainVars>>

---------------------------------------------------------------------------
(* PDFParser: the converter *)

converters ==
    << [name |-> "pdftotext", argv |-> <<"-l", "1", "{pdf}", "-">>],
       [name |-> "pdftohtml", argv |-> <<"-stdout", "-i", "-l", "1", "{pdf}">>] >>

Dirs     == {"/bin", "/opt"}
Programs == {converters[i].name : i \in 1..Len(converters)}
\* what os.path.join(dir, program) names: nothing, an executable regular
\* file, a regular file without the x bit, a directory
Kinds    == {"none", "exe", "noexec", "dir"}
\* an entry of PATH may be quoted
PathEntries == {"/bin", "/opt", "\"/opt\""}

\* path.strip('"')
strip(path) == IF path = "\"/opt\"" THEN "/opt" ELSE path

\* is_exe(os.path.join(path, program))
is_exe(files, dir, program) == files[<<dir, program>>] = "exe"

RECURSIVE which_from(_, _, _, _)
\* the loop of which over os.environ["PATH"].split(os.pathsep), from entry i
which_from(files, path, program, i) ==
    IF i > Len(path) THEN None
    ELSE IF is_exe(files, strip(path[i]), program)
         THEN [ok |-> TRUE, dir |-> strip(path[i]), name |-> program]
         ELSE which_from(files, path, program, i + 1)

\* PDFParser.which(program), for a program name without a directory part
which(files, path, program) == which_from(files, path, program, 1)

RECURSIVE init_backwards(_, _, _)
\* __init__ trying the converters from the last to the first
init_backwards(files, path, i) ==
    IF i < 1 THEN [ok |-> FALSE, raised |-> "Exception"]
    ELSE LET location == which(files, path, converters[i].name)
         IN  IF location.ok
             THEN [ok |-> TRUE, name |-> converters[i].name,
                   location |-> location, argv |-> converters[i].argv]
             ELSE init_backwards(files, path, i - 1)

PDFParser_init_backwards(files, path) == init_backwards(files, path, Len(converters))

RECURSIVE init_from(_, _, _)
\* the loop of PDFParser.__init__ over converters, from converter i; a record
\* with raised is the Exception() of line 125
init_from(files, path, i) ==
    IF i > Len(converters) THEN [ok |-> FALSE, raised |-> "Exception"]
    ELSE LET location == which(files, path, converters[i].name)
         IN  IF location.ok
             THEN [ok |-> TRUE, name |-> converters[i].name,
                   location |-> location, argv |-> converters[i].argv]
             ELSE init_from(files, path, i + 1)

\* PDFParser.__init__: the value bound to self.converter
PDFParser_init(files, path) == init_from(files, path, 1)

MaxPath == 2

Paths == UNION {[1..n -> PathEntries] : n \in 0..MaxPath}
FileSystems == [Dirs \X Programs -> Kinds]

EnvIdle ==
    /\ PATH = <<>>
    /\ fs = [x \in Dirs \X Programs |-> "none"]
    /\ converter = None

WhichInit ==
    /\ PATH \in Paths
    /\ fs \in FileSystems
    /\ converter = None
    /\ wPc = "start"

\* parser = PDFParser()
WhichBind ==
    /\ wPc = "start"
    /\ converter' = PDFParser_init(fs, PATH)
    /\ wPc' = IF converter'.ok THEN "bound" ELSE "raised"
    /\ UNCHANGED envVars
    /\ UNCHANGED <<bibVars, doiVars, mainVars>>

---------------------------------------------------------------------------
(* BibLookup *)

s_url == <<"h", "t", "t", "p", ":", "/", "/", "d", "x", ".", "d", "o", "i", ".",
           "o", "r", "g", "/">>

\* the request get_bibtex builds: url.format(doi=doi) with the headers
Request(d) ==
    [url |-> s_url \o d,
     headers |-> [Accept |-> "text/bibliography; style=bibtex"]]

\* get_bibtex asking twice
get_bibtex_twice(reqs, d) == Append(Append(reqs, Request(d)), Request(d))

\* the urlopen calls after get_bibtex(doi): one request, no retry
get_bibtex(reqs, d) == Append(reqs, Request(d))

---------------------------------------------------------------------------
(* main *)

\* sub in s
Contains(s, sub) ==
    \E i \in 1..(Len(s) - Len(sub) + 1) : SubSeq(s, i, i + Len(sub) - 1) = sub

s_pdf == <<".", "p", "d", "f">>
s_lib == <<"l", "i", "b">>
s_new == <<"n", "e", "w", ".", "p", "d", "f">>
s_box == <<"b", "o", "x">>
s_nowhere == <<"n", "o", "n", "e">>

\* the locations a command line may name
LocationNames == {s_lib, s_box, s_new, s_nowhere}
\* os.path.isfile, os.path.isdir
isfile(location) == location = s_new
isdir(location)  == location \in {s_lib, s_box}
\* the file names os.walk(location) yields (one directory each, no
\* subdirectories)
walk(location) ==
    IF location = s_lib
    THEN << <<"a", ".", "p", "d", "f">>, <<"n", ".", "t", "x", "t">>,
            <<"b", ".", "p", "d", "f", ".", "g", "z">> >>
    ELSE IF location = s_box THEN << <<"c", ".", "p", "d", "f">> >>
    ELSE <<>>

\* os.path.join(path, f)
join(path, name) == path \o <<"/">> \o name

RECURSIVE PdfsOf(_, _)
\* [os.path.join(path, f) for f in files if ".pdf" in f]
PdfsOf(path, files) ==
    IF files = <<>> THEN <<>>
    ELSE (IF Contains(Head(files), s_pdf) THEN <<join(path, Head(files))>> ELSE <<>>)
         \o PdfsOf(path, Tail(files))

RECURSIVE gather(_, _)
\* the loop of lines 168-173 over args.location. str has no method tolower:
\* a location that is a regular file raises AttributeError
gather(locations, acc) ==
    IF locations = <<>> THEN [ok |-> TRUE, f |-> acc]
    ELSE IF isfile(Head(locations)) THEN [ok |-> FALSE, raised |-> "AttributeError"]
    ELSE IF isdir(Head(locations))
         THEN gather(Tail(locations), acc \o PdfsOf(Head(locations), walk(Head(locations))))
         ELSE gather(Tail(locations), acc)

RECURSIVE split(_, _)
\* s.split(sep) for a one-character sep
split(s, sep) ==
    LET hits == {i \in 1..Len(s) : s[i] = sep}
    IN  IF hits = {} THEN <<s>>
        ELSE <<SubSeq(s, 1, Min(hits) - 1)>>
             \o split(SubSeq(s, Min(hits) + 1, Len(s)), sep)

Range(q) == {q[i] : i \in 1..Len(q)}

\* [x.format(pdf=pdf_file) for x in self.converter]
command(conv, pdf_file) ==
    [program |-> conv.location,
     argv |-> [i \in 1..Len(conv.argv) |->
                 IF conv.argv[i] = "{pdf}" THEN pdf_file ELSE <<conv.argv[i]>>]]

\* one newline after a record
newlines_one == <<NL>>

\* what line 185 writes after a record
newlines == <<NL, NL>>

\* where the for loop of line 176 goes after the body has run for f[i]
next_file(i) == i + 1

\* what main does with an exception raised in the body of its loops: there
\* is no try statement, the exception leaves main
propagate(i, exc) == [pc |-> "crashed", idx |-> i, error |-> exc]

MaxLocs == 2

\* -e / --exclude: not given (None), or a comma separated list
ExcludeArgs == {None,
                [ok |-> TRUE, value |-> s_year \o <<",">> \o s_file],
                [ok |-> TRUE, value |-> <<"u", "r", "l">>]}
Commandlines ==
    [location : UNION {[1..n -> LocationNames] : n \in 1..MaxLocs},
     exclude : ExcludeArgs]

\* the environments main is run in: (PATH, fs)
MainPath == <<"/bin", "\"/opt\"">>
MainFileSystems ==
    {files \in FileSystems :
        /\ \A x \in Dirs \X Programs : files[x] \in {"none", "exe"}
        /\ files[<<"/bin", "pdftotext">>] = "none"
        /\ files[<<"/bin", "pdftohtml">>] = files[<<"/opt", "pdftotext">>]
        /\ files[<<"/opt", "pdftohtml">>] = "none"}

\* what the converter may write for a file's first page
PageBytes == {b_label, b_label \o b_xyz123, b_a_b_c \o <<NL>> \o b_xyz123, b_10xE9}

\* what the lookup service may answer: a record, a record with a leading
\* blank and a final newline, a page that is no record
r_smith2020 ==
    RecordText([head |-> [type |-> s_article, key |-> s_smith2020],
                fields |-> <<[key |-> s_title, value |-> s_AStudy],
                             [key |-> s_year, value |-> s_2020]>>])
Responses == {
    r_smith2020,
    <<" ">> \o RecordText([head |-> [type |-> s_article, key |-> s_smith2020],
                           fields |-> <<[key |-> s_eprint, value |-> <<"v", "}">>]>>])
          \o <<NL>>,
    <<"D", "O", "I", " ", "N", "o", "t", " ", "F", "o", "u", "n", "d">>}

MainIdle ==
    /\ pc = "idle"
    /\ args = [location |-> <<>>, exclude |-> None]
    /\ f = <<>>
    /\ idx = 1
    /\ doi = None
    /\ fetched = <<>>
    /\ b = None
    /\ sink = <<>>
    /\ requests = <<>>
    /\ console = <<>>
    /\ spawned = <<>>
    /\ error = ""

MainInit ==
    /\ PATH = MainPath
    /\ fs \in MainFileSystems
    /\ converter = None
    /\ wPc = "idle"
    /\ pc = "start"
    /\ args \in Commandlines
    /\ f = <<>>
    /\ idx = 1
    /\ doi = None
    /\ fetched = <<>>
    /\ b = None
    /\ sink = <<>>
    /\ requests = <<>>
    /\ console = <<>>
    /\ spawned = <<>>
    /\ error = ""

Goto(r) == pc' = r.pc /\ idx' = r.idx /\ error' = r.error

\* parser = PDFParser()  (line 163)
Construct ==
    /\ pc = "start"
    /\ converter' = PDFParser_init(fs, PATH)
    /\ IF converter'.ok
       THEN pc' = "gather" /\ UNCHANGED <<idx, error>>
       ELSE Goto(propagate(idx, "Exception"))
    /\ UNCHANGED <<args, f, doi, fetched, b, sink, requests, console, spawned>>
    /\ UNCHANGED <<envVars, wPc, bibVars, doiVars>>

\* lines 167-173
Gather ==
    /\ pc = "gather"
    /\ LET g == gather(args.location, <<>>)
       IN  IF g.ok
           THEN f' = g.f /\ pc' = "loop" /\ UNCHANGED <<idx, error>>
           ELSE f' = f /\ Goto(propagate(idx, g.raised))
    /\ UNCHANGED <<args, doi, fetched, b, sink, requests, console, spawned>>
    /\ UNCHANGED <<envVars, converter, wPc, bibVars, doiVars>>

\* lines 177-180 and 187-188: Popen could not start the converter
AnalyzeOSError ==
    /\ pc = "loop" /\ idx <= Len(f)
    /\ console' = Append(console, [msg |-> "Analyzing", arg |-> f[idx]])
    /\ Goto(propagate(idx, "OSError"))
    /\ UNCHANGED <<args, f, doi, fetched, b, sink, requests, spawned>>
    /\ UNCHANGED <<envVars, converter, wPc, bibVars, doiVars>>

\* lines 177-181 and 187-188: the converter ran and wrote out
Analyze ==
    /\ pc = "loop" /\ idx <= Len(f)
    /\ spawned' = Append(spawned, command(converter, f[idx]))
    /\ \E out \in PageBytes :
         LET d == get_doi(out)
             c1 == Append(console, [msg |-> "Analyzing", arg |-> f[idx]])
         IN  IF Raised(d)
             THEN /\ console' = c1
                  /\ doi' = doi
                  /\ Goto(propagate(idx, d.raised))
             ELSE IF d.ok
             THEN /\ console' = c1 \o <<[msg |-> "Found DOI", arg |-> d.value],
                                         [msg |-> "Fetching Metadata", arg |-> <<>>]>>
                  /\ doi' = d
                  /\ pc' = "fetch" /\ UNCHANGED <<idx, error>>
             ELSE /\ console' = Append(c1, [msg |-> "No DOI found", arg |-> <<>>])
                  /\ doi' = d
                  /\ pc' = "loop" /\ idx' = next_file(idx) /\ error' = error
    /\ UNCHANGED <<args, f, fetched, b, sink, requests>>
    /\ UNCHANGED <<envVars, converter, wPc, bibVars, doiVars>>

\* bibtex.get_bibtex(doi) of line 182: urlopen raised
FetchURLError ==
    /\ pc = "fetch"
    /\ requests' = get_bibtex(requests, doi.value)
    /\ Goto(propagate(idx, "URLError"))
    /\ UNCHANGED <<args, f, doi, fetched, b, sink, console, spawned>>
    /\ UNCHANGED <<envVars, converter, wPc, bibVars, doiVars>>

\* bibtex.get_bibtex(doi) of line 182: the service answered
Fetch ==
    /\ pc = "fetch"
    /\ requests' = get_bibtex(requests, doi.value)
    /\ fetched' \in Responses
    /\ pc' = "parse"
    /\ UNCHANGED <<args, f, idx, doi, b, sink, console, spawned, error>>
    /\ UNCHANGED <<envVars, converter, wPc, bibVars, doiVars>>

\* b = BibEntry(...) of line 182
Parse ==
    /\ pc = "parse"
    /\ LET e == BibEntry(fetched)
       IN  IF e.ok
           THEN b' = e /\ pc' = "add_arg" /\ UNCHANGED <<idx, error>>
           ELSE b' = b /\ Goto(propagate(idx, "AttributeError"))
    /\ UNCHANGED <<args, f, doi, fetched, sink, requests, console, spawned>>
    /\ UNCHANGED <<envVars, converter, wPc, bibVars, doiVars>>

\* b.add_arg('file', file)  (line 183)
AddFile ==
    /\ pc = "add_arg"
    /\ b' = add_arg(b, s_file, f[idx])
    /\ pc' = "write"
    /\ UNCHANGED <<args, f, idx, doi, fetched, sink, requests, console, spawned, error>>
    /\ UNCHANGED <<envVars, converter, wPc, bibVars, doiVars>>

\* args.output.write(b.format(exclude=args.exclude.split(",")))  (line 184);
\* None has no method split: AttributeError when -e was not given
WriteRecord ==
    /\ pc = "write"
    /\ IF args.exclude.ok
       THEN /\ sink' = Append(sink, format(b, Range(split(args.exclude.value, ","))))
            /\ pc' = "write_nl" /\ UNCHANGED <<idx, error>>
       ELSE /\ sink' = sink
            /\ Goto(propagate(idx, "AttributeError"))
    /\ UNCHANGED <<args, f, doi, fetched, b, requests, console, spawned>>
    /\ UNCHANGED <<envVars, converter, wPc, bibVars, doiVars>>

\* lines 185-186
WriteNewlines ==
    /\ pc = "write_nl"
    /\ sink' = Append(sink, newlines)
    /\ console' = Append(console, [msg |-> "Wrote Entry", arg |-> <<>>])
    /\ pc' = "loop" /\ idx' = next_file(idx)
    /\ UNCHANGED <<args, f, doi, fetched, b, requests, spawned, error>>
    /\ UNCHANGED <<envVars, converter, wPc, bibVars, doiVars>>

\* the for loop of line 176 is exhausted: main returns
Return ==
    /\ pc = "loop" /\ idx > Len(f)
    /\ pc' = "done"
    /\ UNCHANGED <<args, f, idx, doi, fetched, b, sink, requests, console, spawned,
                   error>>
    /\ UNCHANGED <<envVars, converter, wPc, bibVars, doiVars>>

---------------------------------------------------------------------------
(* Specifications *)

Init == MainInit /\ BibIdle /\ DoiIdle

Next ==
    \/ Construct
    \/ Gather
    \/ AnalyzeOSError
    \/ Analyze
    \/ FetchURLError
    \/ Fetch
    \/ Parse
    \/ AddFile
    \/ WriteRecord
    \/ WriteNewlines
    \/ Return

Spec == Init /\ [][Next]_vars

InitBib == BibInit /\ DoiIdle /\ EnvIdle /\ wPc = "idle" /\ MainIdle

NextBib ==
    \/ BibParse
    \/ BibAddArg
    \/ BibFormat
    \/ BibReparse

SpecBib == InitBib /\ [][NextBib]_vars

InitDoi == DoiInit /\ BibIdle /\ EnvIdle /\ wPc = "idle" /\ MainIdle

NextDoi == DoiGet

SpecDoi == InitDoi /\ [][NextDoi]_vars

InitWhich == WhichInit /\ BibIdle /\ DoiIdle /\ MainIdle

NextWhich == WhichBind

SpecWhich == InitWhich /\ [][NextWhich]_vars

---------------------------------------------------------------------------
(* Properties *)

IsPrefix(s, t) == Len(s) <= Len(t) /\ SubSeq(t, 1, Len(s)) = s
EndsWith(s, t) == Len(t) <= Len(s) /\ SubSeq(s, Len(s) - Len(t) + 1, Len(s)) = t
Occurrences(s, sub) ==
    Cardinality({i \in 1..(Len(s) - Len(sub) + 1) :
                    SubSeq(s, i, i + Len(sub) - 1) = sub})
SameMapping(d1, d2) ==
    /\ DictKeys(d1) = DictKeys(d2)
    /\ Len(d1) = Len(d2)
    /\ \A k \in DictKeys(d1) : DictGet(d1, k) = DictGet(d2, k)

\* C1: round trip. Re-parsing the output of format(exclude=[]) of a freshly
\* parsed record (no field added) succeeds and gives the same type, the same
\* id and the same field mapping.
C1_RoundTrip ==
    (bPc = "reparsed" /\ ~bAdded /\ bExcl = {}) =>
        /\ bRe.ok
        /\ bRe.type = bEntry.type
        /\ bRe.id = bEntry.id
        /\ SameMapping(bRe.args, bEntry.args)

\* C2: the output of format(exclude=E) starts with "@<type>{<key>,", ends
\* with a newline and "}", has exactly one field line with the stored value
\* for each field name not in E and no field line for a name in E; names are
\* compared exactly (title and Title are different names).
C2_FormatLines ==
    bPc \in {"formatted", "reparsed"} =>
        LET kept == DictKeys(bEntry.args) \ bExcl
        IN  /\ IsPrefix(<<"@">> \o bEntry.type \o <<"{">> \o bEntry.id \o <<",">>, bOut)
            /\ EndsWith(bOut, <<NL, "}">>)
            /\ \A k \in kept :
                  Occurrences(bOut, FieldLine(k, DictGet(bEntry.args, k))) = 1
            /\ \A k \in bExcl :
                  Occurrences(bOut, <<NL, " ", " ", " ", " ">> \o k \o <<"=", "{">>) = 0
            /\ Occurrences(bOut, <<NL>>) = Cardinality(kept) + 1

C2_Witness ==
    /\ bPc = "formatted"
    /\ s_Title \in bExcl /\ s_Title \in DictKeys(bEntry.args)
    /\ s_title \in DictKeys(bEntry.args) \ bExcl
    /\ Occurrences(bOut, FieldLine(s_title, DictGet(bEntry.args, s_title))) = 1

\* the precondition of C3 on the field values: non-empty, no "}, " inside
WellFormed(src) ==
    \A i \in 1..Len(src.fields) :
        /\ src.fields[i].value # <<>>
        /\ ~Contains(src.fields[i].value, <<"}", ",", " ">>)

\* C3: parsing the single-line record "@T{K, f1={v1}, ..., fn={vn}}" (names
\* distinct, values non-empty and without "}, ") gives type T, id K and the
\* fields exactly {f1: v1, ..., fn: vn}, nested braces in a value included.
C3_ParseFields ==
    (bPc = "parsed" /\ ~bAdded /\ WellFormed(bSrc)) =>
        /\ bEntry.ok
        /\ bEntry.type = bSrc.head.type
        /\ bEntry.id = bSrc.head.key
        /\ SameMapping(bEntry.args, bSrc.fields)

C3_Witness ==
    /\ bPc = "parsed" /\ ~bAdded
    /\ bSrc = [head |-> [type |-> s_article, key |-> s_smith2020],
               fields |-> <<[key |-> s_title, value |-> s_AStudy],
                            [key |-> s_year, value |-> s_2020]>>]
    /\ bEntry.type = s_article /\ bEntry.id = s_smith2020
    /\ bEntry.args = <<[key |-> s_title, value |-> s_AStudy],
                       [key |-> s_year, value |-> s_2020]>>

\* out[i..j] is a match of doi_regex as the source writes it
IsDoiMatch(out, i, j) ==
    /\ i >= 1 /\ j <= Len(out) /\ j >= i + 8
    /\ out[i] = "1" /\ out[i + 1] = "0" /\ out[i + 2] # NL
    /\ \A k \in (i + 3)..(i + 6) : out[k] \in Digit
    /\ out[i + 7] = "/"
    /\ \A k \in (i + 8)..j : out[k] \in SuffixClass
MatchStarts(out) ==
    {i \in 1..Len(out) : \E j \in i..Len(out) : IsDoiMatch(out, i, j)}

\* C4: the search of get_doi finds nothing exactly when the bytes hold no
\* match of the pattern; otherwise it finds the leftmost match (the longest
\* one starting there), never a later one, and what get_doi returns is None
\* in the first case and that match in the second.
C4_LeftmostMatch ==
    dPc # "start" =>
        /\ dMatch.ok <=> MatchStarts(dOut) # {}
        /\ dMatch.ok =>
              LET i == dMatch.start
                  j == dMatch.start + Len(dMatch.value) - 1
              IN  /\ \A k \in MatchStarts(dOut) : i <= k
                  /\ IsDoiMatch(dOut, i, j)
                  /\ ~IsDoiMatch(dOut, i, j + 1)
                  /\ dMatch.value = SubSeq(dOut, i, j)
        /\ dPc = "returned" =>
              /\ dDoi.ok <=> dMatch.ok
              /\ dDoi.ok => dDoi.value = dMatch.value

C4_Witness ==
    /\ dPc = "returned"
    /\ dOut = b_a_b_c \o <<NL>> \o b_xyz123
    /\ Cardinality(MatchStarts(dOut)) >= 2
    /\ dDoi.ok /\ dDoi.value = b_a_b_c

\* the DOI token of the data model: "10." , four digits, a slash, one or more
\* word / hyphen / dot characters
IsDoiToken(t) ==
    /\ Len(t) >= 9
    /\ t[1] = "1" /\ t[2] = "0" /\ t[3] = "."
    /\ \A k \in 4..7 : t[k] \in Digit
    /\ t[8] = "/"
    /\ \A k \in 9..Len(t) : t[k] \in SuffixClass

\* C5: every token get_doi returns has the form "10." + 4 digits + "/" +
\* suffix; bytes whose only candidate has another character in place of the
\* dot give None.
C5_LiteralDot ==
    /\ (dPc = "returned" /\ dDoi.ok) => IsDoiToken(dDoi.value)
    /\ (dPc # "start" /\ dOut = b_10x) => (dPc = "returned" /\ ~dDoi.ok)

\* the PATH entries (1-based) whose directory holds program as an executable
\* regular file
Holding(program) ==
    {i \in 1..Len(PATH) : fs[<<strip(PATH[i]), program>>] = "exe"}
BoundTo(i) ==
    /\ wPc = "bound"
    /\ converter.ok
    /\ converter.name = converters[i].name
    /\ converter.argv = converters[i].argv
    /\ converter.location =
          [ok |-> TRUE, dir |-> strip(PATH[Min(Holding(converters[i].name))]),
           name |-> converters[i].name]

\* C6: PDFParser() binds pdftotext whenever some PATH directory holds it as
\* an executable regular file, else pdftohtml when some directory holds that,
\* with the program resolved in the first such PATH directory; when neither
\* is found it raises and binds nothing.
C6_PreferenceOrder ==
    wPc \in {"bound", "raised"} =>
        IF Holding("pdftotext") # {} THEN BoundTo(1)
        ELSE IF Holding("pdftohtml") # {} THEN BoundTo(2)
        ELSE wPc = "raised" /\ ~converter.ok

C6_Witness ==
    /\ wPc = "bound"
    /\ PATH = <<"/bin", "\"/opt\"">>
    /\ fs[<<"/bin", "pdftohtml">>] = "exe"
    /\ fs[<<"/bin", "pdftotext">>] = "noexec"
    /\ fs[<<"/opt", "pdftotext">>] = "exe"
    /\ converter.name = "pdftotext"
    /\ converter.location.dir = "/opt"

\* C7: a per-file error (the converter cannot be started, the lookup fails)
\* does not end the run: main is never left by OSError or URLError.
C7_ErrorIsolation ==
    error \in {"OSError", "URLError"} => pc # "crashed"

Count(q, m) == Len(SelectSeq(q, LAMBDA e : e.msg = m))
IsRecordText(t) ==
    /\ Len(t) >= 3 /\ t[1] = "@" /\ EndsWith(t, <<NL, "}">>)
SinkShape ==
    \A k \in 1..Len(sink) :
        IF k % 2 = 1 THEN IsRecordText(sink[k]) ELSE sink[k] = <<NL, NL>>

\* C8: the sink holds only complete serialized records; a write happens
\* only with a record whose fetched text matched the outer grammar; when the
\* fetched text does not match, parsing raises, no record object is made and
\* nothing is written for that file.
C8_NoPartialRecord ==
    /\ [](/\ \A k \in 1..Len(sink) : k % 2 = 1 => IsRecordText(sink[k])
          /\ pc \in {"add_arg", "write", "write_nl"} =>
                (b.ok /\ parts_search(fetched).ok))
    /\ [][/\ sink' # sink =>
                (pc \in {"write", "write_nl"} /\ b.ok /\ parts_search(fetched).ok)
          /\ (pc = "parse" /\ ~parts_search(fetched).ok) =>
                (pc' = "crashed" /\ sink' = sink /\ b' = b)]_vars

C8_Witness ==
    /\ pc = "crashed" /\ error = "AttributeError"
    /\ ~parts_search(fetched).ok
    /\ Len(sink) = 2
    /\ idx = 2

\* C9: a file without a DOI match gets "No DOI found", no write, no request,
\* and the loop goes to the next file; a file with a DOI gets exactly one
\* request, for that DOI; the requests never outnumber the files with a DOI.
C9_OneRequestPerDoi ==
    /\ [](LET found == SelectSeq(console, LAMBDA e : e.msg = "Found DOI")
          IN  /\ Len(requests) <= Len(found)
              /\ \A k \in 1..Len(requests) : requests[k] = Request(found[k].arg)
              /\ pc \in {"parse", "add_arg", "write", "write_nl", "loop", "done"} =>
                    Len(requests) = Len(found)
              /\ pc = "fetch" => Len(requests) = Len(found) - 1)
    /\ [][Count(console', "No DOI found") # Count(console, "No DOI found") =>
            /\ requests' = requests
            /\ sink' = sink
            /\ pc' = "loop" /\ idx' = idx + 1]_vars

C9_Witness ==
    /\ pc = "done"
    /\ Count(console, "No DOI found") = 1
    /\ Count(console, "Found DOI") = 2
    /\ Len(requests) = 2
    /\ requests[1].url # requests[2].url

\* C10: the files are processed one after the other in list order: the loop
\* index moves by one, and only when the body has finished for the current
\* file; every step acts on the current file; the sink is only appended to,
\* each record is followed by exactly two newlines; every extraction of the
\* run uses the converter bound at the start.
C10_Sequential ==
    /\ [](/\ SinkShape
          /\ pc \in {"loop", "done"} => Len(sink) % 2 = 0
          /\ Len(spawned) <= Len(f)
          /\ \A k \in 1..Len(spawned) : spawned[k] = command(converter, f[k])
          /\ pc \in {"fetch", "parse", "add_arg", "write", "write_nl"} =>
                Len(spawned) = idx)
    /\ [][/\ IsPrefix(sink, sink')
          /\ pc # "start" => converter' = converter
          /\ idx' = idx \/ (idx' = idx + 1 /\ pc \in {"loop", "write_nl"} /\ pc' = "loop")
          /\ (pc = "write" /\ sink' # sink /\ s_file \notin Range(split(args.exclude.value, ","))) =>
                Contains(sink'[Len(sink')], FieldLine(s_file, f[idx]))]_vars

C10_Witness ==
    /\ pc = "done"
    /\ Len(sink) = 4
    /\ Len(f) = 3
    /\ sink[2] = <<NL, NL>> /\ sink[4] = <<NL, NL>>
    /\ Contains(sink[1], FieldLine(s_file, f[1]))
    /\ Contains(sink[3], FieldLine(s_file, f[3]))

=============================================================================
